---- MODULE Spec2Model ----
(***************************************************************************)
(* QuickRun (qr.py): an interactive launcher.  A config of grouped         *)
(* (name, command) items is shown as a pile of per-group grids; a          *)
(* readline-like filter box narrows the grids; enter commits the focused   *)
(* item, esc or a signal cancels.                                          *)
(*                                                                         *)
(* Strings are sequences of one-character strings, so that lowercasing,    *)
(* substring search, ordinal comparison and the word regexes are computed  *)
(* character by character.  Positions are 0-based for the cursor (as in    *)
(* the code) and 1-based for sequences of widgets.                         *)
(***************************************************************************)
EXTENDS Integers, Sequences, FiniteSets, TLC

VARIABLES config, file, error, size, edit_text, edit_pos, pile, pileFocus,
          gridContents, gridFocus, command, pc, handoff

vars == <<config, file, error, size, edit_text, edit_pos, pile, pileFocus,
          gridContents, gridFocus, command, pc, handoff>>

(* ---------------------------- bounds ----------------------------------- *)

\* longest filter text typed in the filter box
MaxLen == 3

(* ---------------------------- characters ------------------------------- *)

UpperCs == <<"A","B","C","D","E","F","G","H","I","J","K","L","M",
             "N","O","P","Q","R","S","T","U","V","W","X","Y","Z">>

LowerCs == <<"a","b","c","d","e","f","g","h","i","j","k","l","m",
             "n","o","p","q","r","s","t","u","v","w","x","y","z">>

\* None where a widget is expected
None == <<>>

\* no command line handed to the shell
NoHandoff == "none"

\* code point of a character (letters, the blank and the config punctuation)
Ord(c) ==
    IF \E i \in 1..26 : UpperCs[i] = c
    THEN 64 + (CHOOSE i \in 1..26 : UpperCs[i] = c)
    ELSE IF \E i \in 1..26 : LowerCs[i] = c
    THEN 96 + (CHOOSE i \in 1..26 : LowerCs[i] = c)
    ELSE IF c = "{" THEN 123
    ELSE IF c = "}" THEN 125
    ELSE IF c = ":" THEN 58
    ELSE IF c = "#" THEN 35
    ELSE 32

\* str.lower() on one character
LowerTab ==
    [c \in {UpperCs[i] : i \in 1..26} |->
        LowerCs[CHOOSE i \in 1..26 : UpperCs[i] = c]]

LowerChar(c) == IF c \in DOMAIN LowerTab THEN LowerTab[c] ELSE c

\* str.lower()
Lower(s) == [i \in 1..Len(s) |-> LowerChar(s[i])]

\* \s of the word regexes
IsSpace(c) == c = " "

\* python's  t in s  on strings
IsSubstr(t, s) ==
    \E k \in 0..(Len(s) - Len(t)) : SubSeq(s, k + 1, k + Len(t)) = t

\* python's  a < b  on strings (ordinal, by code point)
RECURSIVE StrLess(_, _)
StrLess(a, b) ==
    IF a = <<>> THEN b /= <<>>
    ELSE IF b = <<>> THEN FALSE
    ELSE IF Ord(a[1]) /= Ord(b[1]) THEN Ord(a[1]) < Ord(b[1])
    ELSE StrLess(Tail(a), Tail(b))

Max(a, b) == IF a > b THEN a ELSE b

(* ---------------------------- Config ----------------------------------- *)

\* A config file, as the lines that survive the blank/comment skip, each
\* already split by the ITEM or GROUP pattern:
\*   <<"group", label>>   or   <<"item", name, command>>
Hdr(label) == <<"group", label>>
Item(name, cmd) == <<"item", name, cmd>>

FileBuildTest ==
    << Item(<<"b","u","i","l","d">>, "make all"),
       Item(<<"t","e","s","t">>, "make test") >>

FileDevOps ==
    << Hdr(<<"d","e","v">>),
       Item(<<"r","u","n">>, "./run.sh"),
       Hdr(<<"o","p","s">>),
       Item(<<"d","e","p","l","o","y">>, "./deploy.sh") >>

FileMixed ==
    << Hdr(<<"T">>),
       Item(<<"t">>, "c1"),
       Item(<<"T","e">>, "c2"),
       Item(<<"T","e">>, "c3"),
       Hdr(<<>>),
       Item(<<"t","e">>, "c4"),
       Item(<<"E"," ","t","e","t">>, "c5") >>

ConfigFiles == {FileBuildTest, FileDevOps, FileMixed}

\* list.sort(key=itemgetter(0)) is stable: x goes after every element whose
\* key is not greater than its own
RECURSIVE InsertByKey(_, _)
InsertByKey(sorted, x) ==
    IF sorted = <<>> THEN <<x>>
    ELSE IF StrLess(x[1], sorted[1][1]) THEN <<x>> \o sorted
    ELSE <<sorted[1]>> \o InsertByKey(Tail(sorted), x)

RECURSIVE SortByKey(_)
SortByKey(s) ==
    IF s = <<>> THEN <<>>
    ELSE InsertByKey(SortByKey(SubSeq(s, 1, Len(s) - 1)), s[Len(s)])

\* groups.setdefault(group, []); groups[group].append((name, command))
\* the dict is a sequence of <<label, items>> in insertion order
RECURSIVE DictAppend(_, _, _)
DictAppend(groups, group, it) ==
    IF groups = <<>> THEN << <<group, <<it>> >> >>
    ELSE IF groups[1][1] = group
    THEN << <<group, Append(groups[1][2], it)>> >> \o Tail(groups)
    ELSE <<groups[1]>> \o DictAppend(Tail(groups), group, it)

\* the loop over the lines: current group, dict of groups, maxlen
RECURSIVE ReadLines(_, _, _, _)
ReadLines(lines, group, groups, maxlen) ==
    IF lines = <<>> THEN [groups |-> groups, maxlen |-> maxlen]
    ELSE LET l == lines[1] IN
         IF l[1] = "group"
         THEN ReadLines(Tail(lines), l[2], groups, maxlen)
         ELSE ReadLines(Tail(lines), group,
                        DictAppend(groups, group, <<l[2], l[3]>>),
                        Max(maxlen, Len(l[2])))

\* a read that keeps the groups in the order of their first item
ConfigReadUnsorted(lines) ==
    LET r == ReadLines(lines, <<>>, <<>>, 0)
    IN [groups |-> [i \in 1..Len(r.groups) |->
                       <<r.groups[i][1], SortByKey(r.groups[i][2])>>],
        maxlen |-> r.maxlen]

\* Config.read: groups sorted by label, each group's items sorted by name
ConfigRead(lines) ==
    LET r == ReadLines(lines, <<>>, <<>>, 0)
        byLabel == SortByKey(r.groups)
    IN [groups |-> [i \in 1..Len(byLabel) |->
                       <<byLabel[i][1], SortByKey(byLabel[i][2])>>],
        maxlen |-> r.maxlen]

NG == Len(config.groups)
GroupLabel(g) == config.groups[g][1]
GroupItems(g) == config.groups[g][2]
ItemName(g, i) == GroupItems(g)[i][1]
ItemCommand(g, i) == GroupItems(g)[i][2]

(* ---------------------------- widgets ---------------------------------- *)

\* entries of self.pile.contents
LabelW(g) == [t |-> "label", g |-> g]
GridW(g) == [t |-> "grid", g |-> g]
NotFoundW == [t |-> "nf", g |-> 0]

\* a match that compares the name as written
MatchCaseSensitive(name, text) == IsSubstr(text, name)

\* CmdWidget.match
Match(name, text) == IsSubstr(text, Lower(name))

\* a filter that collects the matches back to front
RECURSIVE FilterCmdsReversed(_, _, _)
FilterCmdsReversed(g, i, search) ==
    IF i > Len(config.groups[g][2]) THEN <<>>
    ELSE IF Match(config.groups[g][2][i][1], search)
    THEN FilterCmdsReversed(g, i + 1, search) \o <<i>>
    ELSE FilterCmdsReversed(g, i + 1, search)

\* [cmd for cmd in cmds if cmd[0].match(search)], as positions in the group
RECURSIVE FilterCmds(_, _, _)
FilterCmds(g, i, search) ==
    IF i > Len(GroupItems(g)) THEN <<>>
    ELSE IF Match(ItemName(g, i), search)
    THEN <<i>> \o FilterCmds(g, i + 1, search)
    ELSE FilterCmds(g, i + 1, search)

AllCmds(g) == [i \in 1..Len(GroupItems(g)) |-> i]

\* a loop that leaves each grid's focus where it was (no set_focus(0))
RECURSIVE PopulateLoopKeepFocus(_, _, _)
PopulateLoopKeepFocus(i, st, search) ==
    IF i > NG THEN st
    ELSE LET cmds == IF search /= <<>> THEN FilterCmds(i, 1, search)
                     ELSE AllCmds(i)
         IN IF search /= <<>> /\ cmds = <<>>
            THEN PopulateLoopKeepFocus(i + 1, st, search)
            ELSE PopulateLoopKeepFocus(i + 1,
                   [result |-> (IF GroupLabel(i) /= <<>>
                                THEN Append(st.result, LabelW(i))
                                ELSE st.result) \o <<GridW(i)>>,
                    contents |-> [st.contents EXCEPT ![i] = cmds],
                    focus |-> [st.focus EXCEPT ![i] =
                                 IF st.focus[i] > Len(cmds) THEN Len(cmds)
                                 ELSE IF st.focus[i] < 1 THEN 1
                                 ELSE st.focus[i]]],
                   search)

\* a loop that does not skip a group without matches
RECURSIVE PopulateLoopNoSkip(_, _, _)
PopulateLoopNoSkip(i, st, search) ==
    IF i > NG THEN st
    ELSE LET cmds == IF search /= <<>> THEN FilterCmds(i, 1, search)
                     ELSE AllCmds(i)
         IN PopulateLoopNoSkip(i + 1,
                   [result |-> (IF GroupLabel(i) /= <<>>
                                THEN Append(st.result, LabelW(i))
                                ELSE st.result) \o <<GridW(i)>>,
                    contents |-> [st.contents EXCEPT ![i] = cmds],
                    focus |-> [st.focus EXCEPT ![i] = 1]],
                   search)

\* a loop that shows a label for the unnamed group too
RECURSIVE PopulateLoopLabelAlways(_, _, _)
PopulateLoopLabelAlways(i, st, search) ==
    IF i > NG THEN st
    ELSE LET cmds == IF search /= <<>> THEN FilterCmds(i, 1, search)
                     ELSE AllCmds(i)
         IN IF search /= <<>> /\ cmds = <<>>
            THEN PopulateLoopLabelAlways(i + 1, st, search)
            ELSE PopulateLoopLabelAlways(i + 1,
                   [result |-> st.result \o <<LabelW(i), GridW(i)>>,
                    contents |-> [st.contents EXCEPT ![i] = cmds],
                    focus |-> [st.focus EXCEPT ![i] = 1]],
                   search)

\* the loop of _populate_pile over self._widgets, from group i on;
\* st = [result, contents, focus]; search = <<>> stands for a falsy search
RECURSIVE PopulateLoop(_, _, _)
PopulateLoop(i, st, search) ==
    IF i > NG THEN st
    ELSE LET cmds == IF search /= <<>> THEN FilterCmds(i, 1, search)
                     ELSE AllCmds(i)
         IN IF search /= <<>> /\ cmds = <<>>
            THEN PopulateLoop(i + 1, st, search)
            ELSE PopulateLoop(i + 1,
                   [result |-> (IF GroupLabel(i) /= <<>>
                                THEN Append(st.result, LabelW(i))
                                ELSE st.result) \o <<GridW(i)>>,
                    contents |-> [st.contents EXCEPT ![i] = cmds],
                    focus |-> [st.focus EXCEPT ![i] = 1]],
                   search)

\* a _populate_pile whose focus index lost its negation
PopulatePileWrongIdx(contents, focus, search) ==
    LET st == PopulateLoop(1, [result |-> <<>>, contents |-> contents,
                               focus |-> focus], search)
        result == IF st.result = <<>> THEN <<NotFoundW>> ELSE st.result
        idx == IF result[1].t = "grid" THEN 1 ELSE 0
    IN [pile |-> result,
        contents |-> st.contents,
        focus |-> st.focus,
        pileFocus |-> IF idx < Len(result) THEN idx + 1 ELSE 1]

\* _populate_pile: the new pile contents, grid contents, grid focus and
\* pile focus
PopulatePile(contents, focus, search) ==
    LET st == PopulateLoop(1, [result |-> <<>>, contents |-> contents,
                               focus |-> focus], search)
        result == IF st.result = <<>> THEN <<NotFoundW>> ELSE st.result
        idx == IF result[1].t = "grid" THEN 0 ELSE 1
    IN [pile |-> result,
        contents |-> st.contents,
        focus |-> st.focus,
        pileFocus |-> IF idx < Len(result) THEN idx + 1 ELSE 1]

\* on_filter
OnFilter(text) == PopulatePile(gridContents, gridFocus, Lower(text))

(* ---------------------------- initial state ---------------------------- *)

\* terminal sizes (maxcol, maxrow) handed to QR.keypress
ScreenSizes == { <<12, 1>>, <<12, 24>> }

\* rows taken by the one-line header
HeaderRows == 1

\* $HOME/.qr.conf
ConfPath == "~/.qr.conf"

\* no ConfigError raised
NoError == <<>>

\* the session on a loaded config; the file is given as its lines already
\* split by the patterns
Init ==
    /\ file \in { [path |-> ConfPath, exists |-> TRUE, lines |-> f] :
                    f \in ConfigFiles }
    /\ config = ConfigRead(file.lines)
    /\ error = NoError
    /\ size \in ScreenSizes
    /\ edit_text = <<>>
    /\ edit_pos = 0
    /\ command = None
    /\ pc = "loop"
    /\ handoff = NoHandoff
    /\ LET p == PopulatePile([g \in 1..NG |-> <<>>], [g \in 1..NG |-> 0], <<>>)
       IN /\ pile = p.pile
          /\ pileFocus = p.pileFocus
          /\ gridContents = p.contents
          /\ gridFocus = p.focus

(* ---------------------------- line editor ------------------------------ *)

\* characters typed into the filter box
TypeChars == {"t", "e", "T", " "}

\* first index >= i of s (1-based) that holds a non-blank, or Len(s) + 1
RECURSIVE SkipSpace(_, _)
SkipSpace(s, i) ==
    IF i > Len(s) \/ ~IsSpace(s[i]) THEN i ELSE SkipSpace(s, i + 1)

\* first index >= i of s that holds a blank, or Len(s) + 1
RECURSIVE SkipWord(_, _)
SkipWord(s, i) ==
    IF i > Len(s) \/ IsSpace(s[i]) THEN i ELSE SkipWord(s, i + 1)

\* WORD_FW.search(s): length of the leftmost match of \S+\s, 0 for no match.
\* The leftmost non-blank starts the match; \S+ takes the whole run and \s
\* one blank after it; a run that reaches the end of s gives no match.
WordFwLen(s) ==
    LET i == SkipSpace(s, 1)
        j == SkipWord(s, i)
    IN IF i > Len(s) \/ j > Len(s) THEN 0 ELSE j - i + 1

\* last index <= i of s that is preceded by a blank or is 1, going left
\* over non-blanks
RECURSIVE RunStart(_, _)
RunStart(s, i) ==
    IF i <= 1 \/ IsSpace(s[i - 1]) THEN i ELSE RunStart(s, i - 1)

\* number of blanks at the end of s
RECURSIVE TrailingSpace(_)
TrailingSpace(s) ==
    IF s = <<>> \/ ~IsSpace(s[Len(s)]) THEN 0
    ELSE 1 + TrailingSpace(SubSeq(s, 1, Len(s) - 1))

\* WORD_BC.search(s): length of the leftmost match of \S+\s*$, 0 for no
\* match: the last run of non-blanks and the blanks after it
WordBcLen(s) ==
    LET e == Len(s) - TrailingSpace(s)
    IN IF e = 0 THEN 0 ELSE Len(s) - RunStart(s, e) + 1

\* text[a:b] with 0-based a, b (0 <= a)
Slice(s, a, b) == SubSeq(s, a + 1, b)

\* ReadlineEdit.find_next_word
FindNextWord(text, pos) ==
    LET m == WordFwLen(Slice(text, pos, Len(text)))
    IN IF m /= 0 /\ m + pos /= 0 THEN m + pos ELSE Len(text)

\* a find_prev_word whose pattern \S+$ has lost the blanks before the cursor
FindPrevWordNoSpace(text, pos) ==
    LET before == Slice(text, 0, pos)
        m == IF TrailingSpace(before) > 0 THEN 0 ELSE WordBcLen(before)
    IN IF m /= 0 /\ pos - m /= 0 THEN pos - m ELSE 0

\* ReadlineEdit.find_prev_word
FindPrevWord(text, pos) ==
    LET m == WordBcLen(Slice(text, 0, pos))
    IN IF m /= 0 /\ pos - m /= 0 THEN pos - m ELSE 0

\* Edit.set_edit_pos: the position is clamped to the text
ClampPos(text, pos) ==
    IF pos < 0 THEN 0 ELSE IF pos > Len(text) THEN Len(text) ELSE pos

\* a 'ctrl w' that leaves the cursor to the clamp of set_edit_text
CtrlWKeepCursor(text, pos) ==
    LET prev_word == FindPrevWord(text, pos)
        t == Slice(text, 0, prev_word) \o Slice(text, pos, Len(text))
    IN [text |-> t, pos |-> ClampPos(t, pos)]

\* 'ctrl w' on the text and cursor: the new text and cursor
CtrlW(text, pos) ==
    LET prev_word == FindPrevWord(text, pos)
        t == Slice(text, 0, prev_word) \o Slice(text, pos, Len(text))
    IN [text |-> t, pos |-> ClampPos(t, prev_word)]

\* Edit.insert_text for one character: the new text and cursor
InsertChar(text, pos, c) ==
    LET t == Slice(text, 0, pos) \o <<c>> \o Slice(text, pos, Len(text))
    IN [text |-> t, pos |-> ClampPos(t, pos + 1)]

\* a set_edit_text whose notification keeps the focus on the item that had
\* it, when that item is still shown
SetEditTextKeepFocus(text, pos) ==
    LET p == OnFilter(text)
        g == IF pile[pileFocus].t = "grid" THEN pile[pileFocus].g ELSE 0
        i == IF g = 0 THEN 0 ELSE gridContents[g][gridFocus[g]]
        js == { j \in 1..Len(p.pile) : g /= 0 /\ p.pile[j] = GridW(g) }
        ks == IF js = {} THEN {}
              ELSE { k \in 1..Len(p.contents[g]) : p.contents[g][k] = i }
        keep == js /= {} /\ ks /= {}
    IN /\ pile' = p.pile
       /\ pileFocus' = IF keep THEN CHOOSE j \in js : TRUE ELSE p.pileFocus
       /\ gridContents' = p.contents
       /\ gridFocus' = IF keep
                       THEN [p.focus EXCEPT ![g] = CHOOSE k \in ks : TRUE]
                       ELSE p.focus
       /\ edit_text' = text
       /\ edit_pos' = ClampPos(text, pos)
       /\ UNCHANGED <<config, file, error, size, command, pc, handoff>>

\* Edit.set_edit_text followed by set_edit_pos(pos): the change signal runs
\* on_filter with the new text, the text is stored, the cursor is clamped to
\* it and then set
SetEditText(text, pos) ==
    LET p == OnFilter(text)
    IN /\ edit_text' = text
       /\ edit_pos' = ClampPos(text, pos)
       /\ pile' = p.pile
       /\ pileFocus' = p.pileFocus
       /\ gridContents' = p.contents
       /\ gridFocus' = p.focus
       /\ UNCHANGED <<config, file, error, size, command, pc, handoff>>

\* set_edit_pos alone
SetEditPos(pos) ==
    /\ edit_pos' = ClampPos(edit_text, pos)
    /\ UNCHANGED <<config, file, error, size, edit_text, pile, pileFocus, gridContents,
                   gridFocus, command, pc, handoff>>

\* 'ctrl k'
KeyCtrlK ==
    /\ pc = "loop"
    /\ SetEditText(Slice(edit_text, 0, edit_pos), edit_pos)

\* 'ctrl a'
KeyCtrlA ==
    /\ pc = "loop"
    /\ SetEditPos(0)

\* 'ctrl w'
KeyCtrlW ==
    /\ pc = "loop"
    /\ LET r == CtrlW(edit_text, edit_pos)
       IN SetEditText(r.text, r.pos)

\* a 'ctrl e' that writes the cursor itself, one past the end
KeyCtrlEPast ==
    /\ pc = "loop"
    /\ edit_pos' = Len(edit_text) + 1
    /\ UNCHANGED <<config, file, error, size, edit_text, pile, pileFocus, gridContents,
                   gridFocus, command, pc, handoff>>

\* 'ctrl e'
KeyCtrlE ==
    /\ pc = "loop"
    /\ SetEditPos(Len(edit_text))

\* 'ctrl u'
KeyCtrlU ==
    /\ pc = "loop"
    /\ SetEditText(Slice(edit_text, edit_pos, Len(edit_text)), 0)

\* 'meta b'
KeyMetaB ==
    /\ pc = "loop"
    /\ SetEditPos(FindPrevWord(edit_text, edit_pos))

\* 'meta f'
KeyMetaF ==
    /\ pc = "loop"
    /\ SetEditPos(FindNextWord(edit_text, edit_pos))

\* 'meta d'
KeyMetaD ==
    /\ pc = "loop"
    /\ LET next_word == FindNextWord(edit_text, edit_pos)
       IN SetEditText(Slice(edit_text, 0, edit_pos)
                        \o Slice(edit_text, next_word, Len(edit_text)),
                      edit_pos)

\* a printable key, through urwid.Edit.keypress: insert at the cursor
KeyChar(c) ==
    /\ pc = "loop"
    /\ Len(edit_text) < MaxLen
    /\ LET r == InsertChar(edit_text, edit_pos, c)
       IN SetEditText(r.text, r.pos)

\* 'backspace', through urwid.Edit.keypress: unhandled at position 0
KeyBackspace ==
    /\ pc = "loop"
    /\ IF edit_pos = 0 THEN UNCHANGED vars
       ELSE SetEditText(Slice(edit_text, 0, edit_pos - 1)
                          \o Slice(edit_text, edit_pos, Len(edit_text)),
                        edit_pos - 1)

\* 'delete', through urwid.Edit.keypress: unhandled at the end of the text
KeyDelete ==
    /\ pc = "loop"
    /\ IF edit_pos >= Len(edit_text) THEN UNCHANGED vars
       ELSE SetEditText(Slice(edit_text, 0, edit_pos)
                          \o Slice(edit_text, edit_pos + 1, Len(edit_text)),
                        edit_pos)

(* ---------------------------- grid navigation -------------------------- *)

\* cells in one row of a GridFlow: every cell is config.maxlen wide with one
\* column between cells; a cell starts a new row when it no longer fits
CellsPerRow ==
    LET w == config.maxlen
        n == (size[1] + 1) \div (w + 1)
    IN IF n < 1 THEN 1 ELSE n

RowOf(p) == (p - 1) \div CellsPerRow
ColOf(p) == (p - 1) % CellsPerRow

\* the positions of grid g that lie in row r
RowCells(g, r) == { p \in 1..Len(gridContents[g]) : RowOf(p) = r }

LastRow(g) == RowOf(Len(gridContents[g]))

\* the pile positions of the grids before / after position i, nearest first
GridsAfter(i) == { j \in (i + 1)..Len(pile) : pile[j].t = "grid" }
GridsBefore(i) == { j \in 1..(i - 1) : pile[j].t = "grid" }

Min(S) == CHOOSE x \in S : \A y \in S : x <= y
MaxOf(S) == CHOOSE x \in S : \A y \in S : x >= y

PassToGrid == {"up", "down", "left", "right"}

\* the focus moves to cell p of the grid at pile position j
FocusCell(j, p) ==
    /\ pileFocus' = j
    /\ gridFocus' = [gridFocus EXCEPT ![pile[j].g] = p]
    /\ UNCHANGED <<config, file, error, size, edit_text, edit_pos, pile, gridContents,
                   command, pc, handoff>>

\* a body that leaves the grid on up and down whatever the row in focus
BodyKeypressCrossAlways(key) ==
    LET i == pileFocus
        w == pile[i]
        g == w.g
        p == gridFocus[g]
    IN IF w.t /= "grid" THEN UNCHANGED vars
       ELSE CASE key = "left" ->
                   IF ColOf(p) > 0 THEN FocusCell(i, p - 1)
                   ELSE UNCHANGED vars
              [] key = "right" ->
                   IF p + 1 \in RowCells(g, RowOf(p)) THEN FocusCell(i, p + 1)
                   ELSE UNCHANGED vars
              [] key = "down" ->
                   IF GridsAfter(i) /= {}
                   THEN LET j == Min(GridsAfter(i))
                        IN \E q \in RowCells(pile[j].g, 0) : FocusCell(j, q)
                   ELSE IF RowOf(p) < LastRow(g)
                   THEN \E q \in RowCells(g, RowOf(p) + 1) : FocusCell(i, q)
                   ELSE UNCHANGED vars
              [] key = "up" ->
                   IF GridsBefore(i) /= {}
                   THEN LET j == MaxOf(GridsBefore(i))
                        IN \E q \in RowCells(pile[j].g, LastRow(pile[j].g)) :
                              FocusCell(j, q)
                   ELSE IF RowOf(p) > 0
                   THEN \E q \in RowCells(g, RowOf(p) - 1) : FocusCell(i, q)
                   ELSE UNCHANGED vars

\* self.body.keypress for a key of PASS_TO_GRID: the pile hands the key to
\* the grid in focus; left and right move inside the row; up and down move
\* to the neighbouring row, and when the grid has none the pile moves to the
\* next selectable widget in that direction, which is a grid (labels and the
\* not-found widget are not selectable).  Which cell of the target row gets
\* the focus is the toolkit's preferred column: any cell of that row.
BodyKeypress(key) ==
    LET i == pileFocus
        w == pile[i]
        g == w.g
        p == gridFocus[g]
    IN IF w.t /= "grid" THEN UNCHANGED vars
       ELSE CASE key = "left" ->
                   IF ColOf(p) > 0 THEN FocusCell(i, p - 1)
                   ELSE UNCHANGED vars
              [] key = "right" ->
                   IF p + 1 \in RowCells(g, RowOf(p)) THEN FocusCell(i, p + 1)
                   ELSE UNCHANGED vars
              [] key = "down" ->
                   IF RowOf(p) < LastRow(g)
                   THEN \E q \in RowCells(g, RowOf(p) + 1) : FocusCell(i, q)
                   ELSE IF GridsAfter(i) /= {}
                   THEN LET j == Min(GridsAfter(i))
                        IN \E q \in RowCells(pile[j].g, 0) : FocusCell(j, q)
                   ELSE UNCHANGED vars
              [] key = "up" ->
                   IF RowOf(p) > 0
                   THEN \E q \in RowCells(g, RowOf(p) - 1) : FocusCell(i, q)
                   ELSE IF GridsBefore(i) /= {}
                   THEN LET j == MaxOf(GridsBefore(i))
                        IN \E q \in RowCells(pile[j].g, LastRow(pile[j].g)) :
                              FocusCell(j, q)
                   ELSE UNCHANGED vars

\* a keypress that lets left and right reach the filter box
KeyDirEditLeftRight(key) ==
    /\ pc = "loop"
    /\ IF key = "left" THEN SetEditPos(edit_pos - 1)
       ELSE IF key = "right" THEN SetEditPos(edit_pos + 1)
       ELSE BodyKeypress(key)

\* QR.keypress, key in PASS_TO_GRID
KeyDir(key) ==
    /\ pc = "loop"
    /\ LET maxrow == size[2] - HeaderRows
       IN IF maxrow <= 0 THEN UNCHANGED vars
          ELSE BodyKeypress(key)

(* ---------------------------- session ---------------------------------- *)

\* a focus that takes the position in the grid for the item
CurrentFocusByPosition ==
    IF pile[pileFocus].t = "grid"
    THEN LET g == pile[pileFocus].g
         IN <<g, gridFocus[g]>>
    ELSE None

\* self.pile.focus and then its .focus: the CmdWidget <<g, i>> in focus, or
\* None when the pile's focus is not a grid
CurrentFocus ==
    IF pile[pileFocus].t = "grid"
    THEN LET g == pile[pileFocus].g
         IN <<g, gridContents[g][gridFocus[g]]>>
    ELSE None

\* an exec_cmd that stores the command and does not leave the loop
KeyEnterNoExit ==
    /\ pc = "loop"
    /\ LET current == CurrentFocus
       IN IF current /= None
          THEN /\ command' = current
               /\ UNCHANGED <<config, file, error, size, edit_text, edit_pos, pile, pc,
                              pileFocus, gridContents, gridFocus, handoff>>
          ELSE UNCHANGED vars

\* QR.exec_cmd, on 'enter'
KeyEnter ==
    /\ pc = "loop"
    /\ LET current == CurrentFocus
       IN IF current /= None
          THEN /\ command' = current
               /\ pc' = "ended"
               /\ UNCHANGED <<config, file, error, size, edit_text, edit_pos, pile,
                              pileFocus, gridContents, gridFocus, handoff>>
          ELSE UNCHANGED vars

\* an 'esc' that goes through exec_cmd before it leaves the loop
KeyEscCommits ==
    /\ pc = "loop"
    /\ pc' = "ended"
    /\ command' = CurrentFocus
    /\ UNCHANGED <<config, file, error, size, edit_text, edit_pos, pile, pileFocus,
                   gridContents, gridFocus, handoff>>

\* 'esc': raise urwid.ExitMainLoop()
KeyEsc ==
    /\ pc = "loop"
    /\ pc' = "ended"
    /\ UNCHANGED <<config, file, error, size, edit_text, edit_pos, pile, pileFocus,
                   gridContents, gridFocus, command, handoff>>

Signals == {"SIGINT", "SIGTERM"}

\* exit_main_loop: the handler raises ExitMainLoop; inside the main loop that
\* ends the session, after the loop it is an uncaught exception in main
Signal(sig) ==
    /\ pc \in {"loop", "ended"}
    /\ pc' = IF pc = "loop" THEN "ended" ELSE "raised"
    /\ UNCHANGED <<config, file, error, size, edit_text, edit_pos, pile, pileFocus,
                   gridContents, gridFocus, command, handoff>>

\* main, after MainLoop.run() returns: the handoff to /bin/sh -c
MainAfterLoop ==
    /\ pc = "ended"
    /\ IF command /= None
       THEN /\ handoff' = ItemCommand(command[1], command[2])
            /\ pc' = "exec"
       ELSE /\ handoff' = handoff
            /\ pc' = "exit"
    /\ UNCHANGED <<config, file, error, size, edit_text, edit_pos, pile, pileFocus,
                   gridContents, gridFocus, command>>

(* ---------------------------- loading ---------------------------------- *)

\* longest config file, in lines
MaxLines == 4

\* str.strip() and the \s* at the ends of the patterns
LStrip(s) == SubSeq(s, SkipSpace(s, 1), Len(s))
RStrip(s) == SubSeq(s, 1, Len(s) - TrailingSpace(s))
Strip(s) == LStrip(RStrip(s))

\* index of the first c in s from i on, 0 for none
RECURSIVE IndexOf(_, _, _)
IndexOf(s, c, i) ==
    IF i > Len(s) THEN 0
    ELSE IF s[i] = c THEN i
    ELSE IndexOf(s, c, i + 1)

\* ITEM.match(item) on a stripped line: None or the (name, command) groups.
\* [^:]+? is the text before the first colon, at least one character, less
\* its trailing blanks; (.+) is what follows the colon less its leading
\* blanks, at least one character.
ItemMatch(item) ==
    LET c == IndexOf(item, ":", 1)
    IN IF c < 2 \/ c = Len(item) THEN None
       ELSE Item(RStrip(SubSeq(item, 1, c - 1)),
                 LStrip(SubSeq(item, c + 1, Len(item))))

\* GROUP.match(item) on a stripped line: None or the label group.
\* The line opens with { and closes with }; the label is what lies between,
\* less the blanks at its ends.
GroupMatch(item) ==
    IF Len(item) >= 2 /\ item[1] = "{" /\ item[Len(item)] = "}"
    THEN Hdr(Strip(SubSeq(item, 2, Len(item) - 1)))
    ELSE None

\* one turn of the loop of Config.read on a raw line: "skip" for a blank or
\* comment line, the item, else the header, else "bad"
ParseLine(line) ==
    LET item == Strip(line)
    IN IF item = <<>> \/ item[1] = "#" THEN <<"skip">>
       ELSE IF ItemMatch(item) /= None THEN ItemMatch(item)
       ELSE IF GroupMatch(item) /= None THEN GroupMatch(item)
       ELSE <<"bad">>

\* a loop that reports enumerate's 0-based line number
RECURSIVE LoadLoopZeroBased(_, _, _)
LoadLoopZeroBased(lines, lno, acc) ==
    IF lno >= Len(lines) THEN [error |-> 0, parsed |-> acc]
    ELSE LET l == ParseLine(lines[lno + 1])
         IN IF l = <<"bad">> THEN [error |-> lno, parsed |-> acc]
            ELSE IF l = <<"skip">> THEN LoadLoopZeroBased(lines, lno + 1, acc)
            ELSE LoadLoopZeroBased(lines, lno + 1, Append(acc, l))

\* for lno, line in enumerate(f): the lines split by the patterns up to the
\* first bad one, whose number lno + 1 is reported (0 for none)
RECURSIVE LoadLoop(_, _, _)
LoadLoop(lines, lno, acc) ==
    IF lno >= Len(lines) THEN [error |-> 0, parsed |-> acc]
    ELSE LET l == ParseLine(lines[lno + 1])
         IN IF l = <<"bad">> THEN [error |-> lno + 1, parsed |-> acc]
            ELSE IF l = <<"skip">> THEN LoadLoop(lines, lno + 1, acc)
            ELSE LoadLoop(lines, lno + 1, Append(acc, l))

\* Config.__init__ before read: no groups, maxlen 0
NoConfig == [groups |-> <<>>, maxlen |-> 0]

\* the lines a config file may hold
RawLines ==
    { <<"b", ":", "x">>,
      <<" ", "a", " ", ":", " ", "y", " ">>,
      <<"{", "g", "}">>,
      <<"{", " ", "}">>,
      <<"{", "a", ":", "b", "}">>,
      <<"a">>,
      <<"#", "a", ":", "b">>,
      <<" ", " ">> }

\* the config files: missing, or up to MaxLines lines
RawFiles ==
    { [path |-> ConfPath, exists |-> FALSE, lines |-> <<>>] }
    \cup { [path |-> ConfPath, exists |-> TRUE, lines |-> l] :
             l \in UNION { [1..n -> RawLines] : n \in 0..MaxLines } }

\* main before Config(): nothing loaded, no widgets
InitLoad ==
    /\ file \in RawFiles
    /\ config = NoConfig
    /\ error = NoError
    /\ size = <<12, 24>>
    /\ edit_text = <<>>
    /\ edit_pos = 0
    /\ command = None
    /\ pc = "start"
    /\ handoff = NoHandoff
    /\ pile = <<>>
    /\ pileFocus = 0
    /\ gridContents = <<>>
    /\ gridFocus = <<>>

\* config = Config() in main: Config.read on the file; a missing file is
\* swallowed, a bad line raises ConfigError out of main
LoadConfig ==
    /\ pc = "start"
    /\ LET r == LoadLoop(file.lines, 0, <<>>)
       IN IF ~file.exists
          THEN /\ config' = NoConfig
               /\ error' = NoError
               /\ pc' = "loaded"
          ELSE IF r.error /= 0
          THEN /\ config' = config
               /\ error' = <<file.path, r.error>>
               /\ pc' = "raised"
          ELSE /\ config' = ConfigRead(r.parsed)
               /\ error' = NoError
               /\ pc' = "loaded"
    /\ UNCHANGED <<file, size, edit_text, edit_pos, pile, pileFocus,
                   gridContents, gridFocus, command, handoff>>

\* a main that starts the session whatever the config holds
MainStartAlways ==
    /\ pc = "loaded"
    /\ LET p == PopulatePile([g \in 1..NG |-> <<>>],
                             [g \in 1..NG |-> 0], <<>>)
       IN /\ pile' = p.pile
          /\ pileFocus' = p.pileFocus
          /\ gridContents' = p.contents
          /\ gridFocus' = p.focus
          /\ pc' = "loop"
    /\ UNCHANGED <<config, file, error, size, edit_text, edit_pos, command,
                   handoff>>

\* main after Config(): exit 0 on an empty config, else build QR and run
MainStart ==
    /\ pc = "loaded"
    /\ IF config.groups = <<>>
       THEN /\ pc' = "exit0"
            /\ UNCHANGED <<pile, pileFocus, gridContents, gridFocus>>
       ELSE LET p == PopulatePile([g \in 1..NG |-> <<>>],
                                  [g \in 1..NG |-> 0], <<>>)
            IN /\ pile' = p.pile
               /\ pileFocus' = p.pileFocus
               /\ gridContents' = p.contents
               /\ gridFocus' = p.focus
               /\ pc' = "loop"
    /\ UNCHANGED <<config, file, error, size, edit_text, edit_pos, command,
                   handoff>>

NextLoad ==
    \/ LoadConfig
    \/ MainStart
    \/ KeyEnter
    \/ KeyEsc
    \/ MainAfterLoop

SpecLoad == InitLoad /\ [][NextLoad]_vars

(* ---------------------------- specification ---------------------------- *)

Edit ==
    \/ KeyCtrlK
    \/ KeyCtrlA
    \/ KeyCtrlW
    \/ KeyCtrlE
    \/ KeyCtrlU
    \/ KeyMetaB
    \/ KeyMetaF
    \/ KeyMetaD
    \/ \E c \in TypeChars : KeyChar(c)
    \/ KeyBackspace
    \/ KeyDelete

Next ==
    \/ Edit
    \/ \E key \in PassToGrid : KeyDir(key)
    \/ KeyEnter
    \/ KeyEsc
    \/ \E sig \in Signals : Signal(sig)
    \/ MainAfterLoop

Spec == Init /\ [][Next]_vars

(* ---------------------------- properties -------------------------------- *)

\* item i of group g matches the filter text
MatchesText(text, g, i) == IsSubstr(Lower(text), Lower(ItemName(g, i)))

GroupMatchesText(text, g) ==
    \E i \in 1..Len(GroupItems(g)) : MatchesText(text, g, i)

\* the first matching item of the first group that has one, or None
FirstMatchOf(text) ==
    LET gs == { h \in 1..NG : GroupMatchesText(text, h) }
    IN IF gs = {} THEN None
       ELSE LET g == Min(gs)
            IN <<g, Min({ i \in 1..Len(GroupItems(g)) :
                            MatchesText(text, g, i) })>>

NameMatches(g, i) == MatchesText(edit_text, g, i)
GroupMatches(g) == GroupMatchesText(edit_text, g)
NoMatch == \A g \in 1..NG : ~GroupMatches(g)
FirstMatch == FirstMatchOf(edit_text)

\* the focused item for the given pile, pile focus, grid contents and focus
FocusOf(pl, pf, gc, gf) ==
    IF pl[pf].t = "grid" THEN <<pl[pf].g, gc[pl[pf].g][gf[pl[pf].g]]>>
    ELSE None

\* item i of group g is in a grid of the pile pl with grid contents gc
ShownIn(pl, gc, g, i) ==
    /\ \E j \in 1..Len(pl) : pl[j] = GridW(g)
    /\ \E k \in 1..Len(gc[g]) : gc[g][k] = i

Shown(g, i) == ShownIn(pile, gridContents, g, i)

\* the command text of the selected command, or None
SelectedCommand ==
    IF command = None THEN NoHandoff ELSE ItemCommand(command[1], command[2])

\* C1: the visible items are exactly the config items whose lowercased name
\* contains the lowercased filter text (all of them for an empty text)
C1_VisibleIffMatch ==
    \A g \in 1..NG : \A i \in 1..Len(GroupItems(g)) :
        Shown(g, i) <=> NameMatches(g, i)

C1_Witness ==
    /\ edit_text = <<"T", "e">>
    /\ \E g \in 1..NG : \E i \in 1..Len(GroupItems(g)) : Shown(g, i)
    /\ \E g \in 1..NG : \E i \in 1..Len(GroupItems(g)) : ~Shown(g, i)

\* C2: enter on a focused real item ends the session with that item's
\* command selected; with the placeholder or nothing in focus it changes
\* nothing
C2_Commit ==
    [][KeyEnter =>
         IF CurrentFocus /= None
         THEN /\ pc' = "ended"
              /\ command' = CurrentFocus
              /\ SelectedCommand' = ItemCommand(CurrentFocus[1], CurrentFocus[2])
         ELSE UNCHANGED vars]_vars

C2_Witness ==
    /\ pc = "ended"
    /\ command /= None
    /\ command = CurrentFocus
    /\ edit_text /= <<>>

\* C3: after a filter change that hides the item that had the focus, the
\* focus is on the first item of the first visible group, or on no item
\* when no group is visible
C3_FocusReset ==
    [][(/\ edit_text' /= edit_text
        /\ CurrentFocus /= None
        /\ ~ShownIn(pile', gridContents', CurrentFocus[1], CurrentFocus[2]))
       => FocusOf(pile', pileFocus', gridContents', gridFocus')
            = FirstMatchOf(edit_text')]_vars

C3_Witness ==
    /\ edit_text = <<" ">>
    /\ config = ConfigRead(FileMixed)
    /\ pile = <<GridW(1)>>
    /\ CurrentFocus = <<1, 1>>
    /\ gridFocus[2] = 3

\* C4: esc, SIGINT or SIGTERM in the session ends it with no command
\* selected; the selection never changes after the session and without a
\* selection there is no handoff
C4_Cancel ==
    /\ [](pc = "loop" => ENABLED KeyEsc)
    /\ [][(KeyEsc \/ (pc = "loop" /\ \E sig \in Signals : Signal(sig)))
            => (pc' = "ended" /\ command' = None)]_vars
    /\ [][pc /= "loop" => command' = command]_vars
    /\ [](command = None => handoff = NoHandoff)

C4_Witness ==
    /\ pc = "exit"
    /\ command = None
    /\ handoff = NoHandoff
    /\ edit_text /= <<>>
    /\ CurrentFocus /= None
    /\ CurrentFocus /= FirstMatch

\* C5: when nothing matches, the pile holds just the not-found placeholder,
\* no item has the focus, and the directional keys and enter change nothing
C5_NotFound ==
    /\ [](NoMatch => (pile = <<NotFoundW>> /\ CurrentFocus = None))
    /\ [][(NoMatch /\ (KeyEnter \/ \E key \in PassToGrid : KeyDir(key)))
            => UNCHANGED vars]_vars

C5_Witness ==
    /\ NoMatch
    /\ pile = <<NotFoundW>>
    /\ pc = "loop"
    /\ size[2] > HeaderRows

(* a session in which no directional key is pressed *)

NextNoDir ==
    \/ Edit
    \/ KeyEnter
    \/ KeyEsc
    \/ \E sig \in Signals : Signal(sig)
    \/ MainAfterLoop

SpecNoDir == Init /\ [][NextNoDir]_vars

\* the names shown, group by group in pile order
VisibleNames ==
    [j \in 1..Len(pile) |->
        IF pile[j].t = "grid"
        THEN [k \in 1..Len(gridContents[pile[j].g]) |->
                 ItemName(pile[j].g, gridContents[pile[j].g][k])]
        ELSE <<>>]

\* C6: without directional keys the focus is on the first matching item of
\* the first group that has a match, and enter ends the session with that
\* item's command; build/test filtered by "te" shows test alone and yields
\* "make test"
C6_CommitFirstMatch ==
    /\ [](FirstMatch /= None =>
            /\ CurrentFocus = FirstMatch
            /\ command \in {None, FirstMatch}
            /\ pc = "exec" =>
                 handoff = ItemCommand(FirstMatch[1], FirstMatch[2]))
    /\ [][(KeyEnter /\ FirstMatch /= None) =>
            (pc' = "ended" /\ command' = FirstMatch)]_vars
    /\ []((config = ConfigRead(FileBuildTest) /\ edit_text = <<"t", "e">>) =>
            /\ VisibleNames = << << <<"t", "e", "s", "t">> >> >>
            /\ ItemName(CurrentFocus[1], CurrentFocus[2])
                 = <<"t", "e", "s", "t">>
            /\ pc = "exec" => handoff = "make test")

C6_Witness ==
    /\ config = ConfigRead(FileBuildTest)
    /\ edit_text = <<"t", "e">>
    /\ pc = "exec"
    /\ handoff = "make test"

\* the pile positions that hold grids, and the group in focus
FocusGroup == pile[pileFocus].g

\* C7: a group's grid is in the pile exactly when one of its items matches,
\* its label exactly when it also has a non-empty label, the label right
\* before the grid; no grid in the pile is empty
C7_GroupVisibleIffMatch ==
    \A g \in 1..NG :
        /\ (\E j \in 1..Len(pile) : pile[j] = GridW(g)) <=> GroupMatches(g)
        /\ (\E j \in 1..Len(pile) : pile[j] = LabelW(g))
             <=> (GroupMatches(g) /\ GroupLabel(g) /= <<>>)
        /\ \A j \in 1..Len(pile) :
             /\ pile[j] = LabelW(g) =>
                  (j < Len(pile) /\ pile[j + 1] = GridW(g))
             /\ pile[j] = GridW(g) => gridContents[g] /= <<>>

C7_Witness ==
    /\ config = ConfigRead(FileMixed)
    /\ edit_text = <<" ">>
    /\ pile = <<GridW(1)>>
    /\ ~GroupMatches(2)

\* C8 as stated: up and down never change the group that holds the focus
C8_VerticalStaysInGroup ==
    [][(KeyDir("up") \/ KeyDir("down")) => FocusGroup' = FocusGroup]_vars

\* C8 amended: down (up) moves the focus one row down (up) inside the
\* focused group's grid; from the last (first) row it moves to the first
\* (last) row of the next (previous) visible group's grid; and changes
\* nothing when there is neither such a row nor such a group
C8_VerticalMotion ==
    /\ [][(KeyDir("down") /\ CurrentFocus /= None) =>
            \/ /\ pileFocus' = pileFocus
               /\ RowOf(gridFocus'[FocusGroup]) = RowOf(gridFocus[FocusGroup]) + 1
            \/ /\ RowOf(gridFocus[FocusGroup]) = LastRow(FocusGroup)
               /\ GridsAfter(pileFocus) /= {}
               /\ pileFocus' = Min(GridsAfter(pileFocus))
               /\ RowOf(gridFocus'[pile[pileFocus'].g]) = 0]_vars
    /\ [][(KeyDir("up") /\ CurrentFocus /= None) =>
            \/ /\ pileFocus' = pileFocus
               /\ RowOf(gridFocus'[FocusGroup]) = RowOf(gridFocus[FocusGroup]) - 1
            \/ /\ RowOf(gridFocus[FocusGroup]) = 0
               /\ GridsBefore(pileFocus) /= {}
               /\ pileFocus' = MaxOf(GridsBefore(pileFocus))
               /\ RowOf(gridFocus'[pile[pileFocus'].g])
                    = LastRow(pile[pileFocus'].g)]_vars

C8_Witness ==
    /\ config = ConfigRead(FileDevOps)
    /\ edit_text = <<>>
    /\ pc = "loop"
    /\ pile = <<LabelW(1), GridW(1), LabelW(2), GridW(2)>>
    /\ pileFocus = 4

\* the layout computed from the config and a filter text alone
RECURSIVE LayoutFrom(_, _)
LayoutFrom(g, text) ==
    IF g > NG THEN <<>>
    ELSE (IF GroupMatchesText(text, g)
          THEN << [label |-> GroupLabel(g),
                   items |-> SelectSeq(AllCmds(g),
                                LAMBDA i : MatchesText(text, g, i))] >>
          ELSE <<>>) \o LayoutFrom(g + 1, text)

\* the layout on the screen: the visible groups in pile order, each with its
\* label and its items in grid order
RECURSIVE LayoutShown(_)
LayoutShown(j) ==
    IF j > Len(pile) THEN <<>>
    ELSE (IF pile[j].t = "grid"
          THEN << [label |-> IF j > 1 /\ pile[j - 1].t = "label"
                             THEN GroupLabel(pile[j - 1].g) ELSE <<>>,
                   items |-> gridContents[pile[j].g]] >>
          ELSE <<>>) \o LayoutShown(j + 1)

\* C9: the visible groups and items and their order are a function of the
\* config and the filter text, whatever the editing history
C9_LayoutFunctionOfFilter == LayoutShown(1) = LayoutFrom(1, edit_text)

C9_Witness ==
    /\ config = ConfigRead(FileMixed)
    /\ edit_text = <<"t">>
    /\ edit_pos = 0
    /\ pc = "loop"
    /\ Len(LayoutShown(1)) = 2

\* C10: the cursor stays inside the text
C10_CursorInText == 0 <= edit_pos /\ edit_pos <= Len(edit_text)

C10_Witness ==
    /\ edit_text = <<"t", " ", "t">>
    /\ edit_pos = 2
    /\ pc = "loop"

(* ---------------------------- word motion ------------------------------ *)

\* the position just after the next run of non-blanks at or after the cursor;
\* the end of the text when no non-blank follows
NextRunEnd(text, pos) ==
    SkipWord(text, SkipSpace(text, pos + 1)) - 1

\* the positions just after the next run of non-blanks and the blanks that
\* follow it, whether one blank or all of them are taken
NextWordEnd(text, pos) ==
    LET w == NextRunEnd(text, pos)
    IN { IF w < Len(text) THEN w + 1 ELSE w, SkipSpace(text, w + 1) - 1 }

\* the start of the run of non-blanks that ends where the blanks before the
\* cursor begin; 0 when only blanks precede the cursor
PrevWordStart(text, pos) ==
    LET e == MaxOf({ k \in 0..pos : k = 0 \/ ~IsSpace(text[k]) })
    IN Min({ j \in 0..e : \A m \in (j + 1)..e : ~IsSpace(text[m]) })

\* C11 as stated: meta f moves the cursor to, and meta d deletes up to, the
\* position after the next run of non-blanks and the blanks after it, also
\* when the cursor stands on a blank before the word
C11_NextWord ==
    [][/\ KeyMetaF => edit_pos' \in NextWordEnd(edit_text, edit_pos)
       /\ KeyMetaD =>
            \E n \in NextWordEnd(edit_text, edit_pos) :
                edit_text' = Slice(edit_text, 0, edit_pos)
                               \o Slice(edit_text, n, Len(edit_text))]_vars

\* C12: meta b moves the cursor to, and ctrl w deletes back to, the start of
\* the word before the cursor; the text after the cursor is kept
C12_PrevWord ==
    /\ [](FindPrevWord(edit_text, edit_pos)
            = PrevWordStart(edit_text, edit_pos))
    /\ [][/\ KeyMetaB =>
               /\ edit_pos' = PrevWordStart(edit_text, edit_pos)
               /\ edit_text' = edit_text
          /\ KeyCtrlW =>
               /\ edit_pos' = PrevWordStart(edit_text, edit_pos)
               /\ edit_text' = Slice(edit_text, 0, edit_pos')
                    \o Slice(edit_text, edit_pos, Len(edit_text))]_vars

C12_Witness ==
    /\ edit_text = <<" ", "t", " ">>
    /\ edit_pos = 1
    /\ PrevWordStart(edit_text, 3) = 1
    /\ pc = "loop"

\* typing the characters of chars one by one at the cursor
RECURSIVE Retype(_, _, _)
Retype(text, pos, chars) ==
    IF chars = <<>> THEN [text |-> text, pos |-> pos]
    ELSE LET r == InsertChar(text, pos, chars[1])
         IN Retype(r.text, r.pos, Tail(chars))

\* C13: ctrl w followed by typing the deleted text gives back the text and
\* the cursor
C13_DeleteRetype ==
    LET r == CtrlW(edit_text, edit_pos)
        deleted == Slice(edit_text, r.pos, edit_pos)
        z == Retype(r.text, r.pos, deleted)
    IN /\ Len(r.text) + Len(deleted) = Len(edit_text)
       /\ z.text = edit_text
       /\ z.pos = edit_pos

C13_Witness ==
    /\ edit_text = <<"t", " ", "e">>
    /\ edit_pos = 2
    /\ CtrlW(edit_text, edit_pos) = [text |-> <<"e">>, pos |-> 0]
    /\ pc = "loop"

(* ---------------------------- loading: properties ---------------------- *)

\* a line of blanks only, or whose first non-blank is #
BlankOrComment(line) ==
    \/ \A i \in 1..Len(line) : IsSpace(line[i])
    \/ \E i \in 1..Len(line) :
          /\ line[i] = "#"
          /\ \A j \in 1..(i - 1) : IsSpace(line[j])

\* numbers of the lines that are neither blank nor comment and match neither
\* pattern
BadLineNos ==
    { k \in 1..Len(file.lines) :
        /\ ~BlankOrComment(file.lines[k])
        /\ ItemMatch(Strip(file.lines[k])) = None
        /\ GroupMatch(Strip(file.lines[k])) = None }

\* numbers of the lines that the loop takes as items
ItemLineNos ==
    { k \in 1..Len(file.lines) : ParseLine(file.lines[k])[1] = "item" }

\* the (name, command) pair of item line k
ItemAt(k) ==
    LET l == ParseLine(file.lines[k]) IN <<l[2], l[3]>>

\* the group that is current when line k is read
CurGroupAt(k) ==
    LET hs == { j \in 1..(k - 1) : ParseLine(file.lines[j])[1] = "group" }
    IN IF hs = {} THEN <<>> ELSE ParseLine(file.lines[MaxOf(hs)])[2]

\* all (group, index) places of the loaded config
Places ==
    UNION { { <<g, i>> : i \in 1..Len(GroupItems(g)) } : g \in 1..NG }

Loaded == pc /= "start" /\ error = NoError

\* C14: ConfigError exactly when some line that is neither blank nor comment
\* matches neither pattern; it carries the path and the 1-based number of the
\* first such line, and no config is produced
C14_ConfigError ==
    pc /= "start" =>
        /\ (error /= NoError) <=> (BadLineNos /= {})
        /\ error /= NoError =>
             /\ error = <<file.path, Min(BadLineNos)>>
             /\ config = NoConfig
             /\ pc = "raised"

C14_Witness ==
    /\ pc = "raised"
    /\ error = <<ConfPath, 3>>
    /\ Len(file.lines) = 4
    /\ file.lines[1] = <<"#", "a", ":", "b">>
    /\ file.lines[2] = <<" ", " ">>
    /\ file.lines[3] = <<"a">>
    /\ file.lines[4] = <<"a">>

\* C15: a missing file or a file without items gives an empty config, on
\* which main exits with code 0 and never starts the session; the config is
\* non-empty exactly when an item was parsed, and no group is empty
C15_EmptyExits ==
    /\ [](Loaded =>
            /\ (config.groups = <<>>) <=> (~file.exists \/ ItemLineNos = {})
            /\ \A g \in 1..NG : Len(GroupItems(g)) >= 1
            /\ config.groups = <<>> =>
                 /\ pc \in {"loaded", "exit0"}
                 /\ pile = <<>>
                 /\ command = None
            /\ pc = "exit0" => config.groups = <<>>)
    /\ [][pc = "loaded" /\ config.groups = <<>> => pc' = "exit0"]_vars
    /\ [][pc /= "exit0"]_vars

C15_Witness ==
    /\ pc = "exit0"
    /\ file.exists
    /\ file.lines = << <<"{", "g", "}">>, <<"#", "a", ":", "b">>,
                       <<" ", " ">> >>

\* C16: in a loaded config the labels are distinct and strictly increasing,
\* the names of a group are non-decreasing, and every parsed item is there
\* exactly once, in the group that was current at its line
C16_SortedGroups ==
    Loaded =>
        /\ \A g, h \in 1..NG : g /= h => GroupLabel(g) /= GroupLabel(h)
        /\ \A g \in 1..(NG - 1) : StrLess(GroupLabel(g), GroupLabel(g + 1))
        /\ \A g \in 1..NG : \A i \in 1..(Len(GroupItems(g)) - 1) :
              ~StrLess(ItemName(g, i + 1), ItemName(g, i))
        /\ Cardinality(Places) = Cardinality(ItemLineNos)
        /\ \A k \in ItemLineNos :
              \E g \in 1..NG :
                 /\ GroupLabel(g) = CurGroupAt(k)
                 /\ Cardinality({ i \in 1..Len(GroupItems(g)) :
                                    GroupItems(g)[i] = ItemAt(k) })
                      = Cardinality({ j \in ItemLineNos :
                                        /\ ItemAt(j) = ItemAt(k)
                                        /\ CurGroupAt(j) = CurGroupAt(k) })

C16_Witness ==
    /\ pc = "loaded"
    /\ file.lines = << <<"{", "g", "}">>, <<"b", ":", "x">>,
                       <<"{", " ", "}">>,
                       <<" ", "a", " ", ":", " ", "y", " ">> >>
    /\ NG = 2
    /\ GroupLabel(1) = <<>>
    /\ GroupItems(1) = << << <<"a">>, <<"y">> >> >>
    /\ GroupLabel(2) = <<"g">>

\* a line of the form { label }
HeaderForm(line) ==
    LET it == Strip(line)
    IN Len(it) >= 2 /\ it[1] = "{" /\ it[Len(it)] = "}"

\* the trimmed label of a line of the form { label }
HeaderLabel(line) ==
    LET it == Strip(line) IN Strip(SubSeq(it, 2, Len(it) - 1))

\* the label of the last line of the form { label } before line k
HeaderBefore(k) ==
    LET hs == { j \in 1..(k - 1) : HeaderForm(file.lines[j]) }
    IN IF hs = {} THEN <<>> ELSE HeaderLabel(file.lines[MaxOf(hs)])

\* numbers of the lines that are neither blank, comment nor of the form
\* { label }
NonHeaderLineNos ==
    { k \in 1..Len(file.lines) :
        ~BlankOrComment(file.lines[k]) /\ ~HeaderForm(file.lines[k]) }

\* C17 as stated: every line of the form { label }, whatever the label, adds
\* no item and makes its label the group of the item lines that follow;
\* items before the first such line are in the group of the empty label
C17_Headers ==
    Loaded =>
        /\ Cardinality(Places) = Cardinality(NonHeaderLineNos)
        /\ \A k \in NonHeaderLineNos :
              \E g \in 1..NG :
                 /\ GroupLabel(g) = HeaderBefore(k)
                 /\ \E i \in 1..Len(GroupItems(g)) :
                       GroupItems(g)[i] = ItemAt(k)

(* ---------------------------- session: more properties ---------------- *)

\* after the step the focus is on the first item of the first visible group,
\* or on no item when no group is visible
FocusReset ==
    FocusOf(pile', pileFocus', gridContents', gridFocus')
        = FirstMatchOf(edit_text')

\* an edit step that sets the filter text, to a new or to the same value
TextEdit ==
    \/ KeyCtrlK
    \/ KeyCtrlW
    \/ KeyCtrlU
    \/ KeyMetaD
    \/ \E c \in TypeChars : KeyChar(c)
    \/ KeyBackspace /\ edit_pos > 0
    \/ KeyDelete /\ edit_pos < Len(edit_text)

\* C18: every edit of the filter text, also one that leaves the text as it
\* was, puts the focus on the first item of the first visible group, wherever
\* the focus was before
C18_EditResetsFocus ==
    /\ [][TextEdit => FocusReset]_vars
    /\ [](pc = "loop" =>
            LET p == OnFilter(edit_text)
            IN FocusOf(p.pile, p.pileFocus, p.contents, p.focus)
                 = FirstMatchOf(edit_text))

C18_Witness ==
    /\ pc = "loop"
    /\ config = ConfigRead(FileMixed)
    /\ edit_text = <<"t">>
    /\ edit_pos = 1
    /\ CurrentFocus /= None
    /\ CurrentFocus /= FirstMatch
    /\ NameMatches(CurrentFocus[1], CurrentFocus[2])

\* C19: the selected command is none or an item of the config that matches
\* the filter text; it is set only by a commit, which ends the session, and
\* never changes afterwards
C19_CommandSetOnce ==
    /\ [](command /= None =>
            /\ command[1] \in 1..NG
            /\ command[2] \in 1..Len(GroupItems(command[1]))
            /\ NameMatches(command[1], command[2])
            /\ pc /= "loop")
    /\ [][command' /= command =>
            (command = None /\ KeyEnter /\ pc = "loop" /\ pc' = "ended")]_vars
    /\ [][pc /= "loop" => (command' = command /\ edit_text' = edit_text)]_vars

C19_Witness ==
    /\ pc = "exec"
    /\ command /= None
    /\ edit_text = <<"e">>
    /\ \E g \in 1..NG : \E i \in 1..Len(GroupItems(g)) : ~NameMatches(g, i)
    /\ command /= FirstMatch

\* C20: up, down, left, right and enter change neither the filter text nor
\* its cursor nor what is shown
C20_KeysKeepFilter ==
    [][(KeyEnter \/ \E key \in PassToGrid : KeyDir(key))
         => UNCHANGED <<edit_text, edit_pos, pile, gridContents>>]_vars

C20_Witness ==
    /\ pc = "loop"
    /\ edit_text = <<"t", "e">>
    /\ edit_pos = 1
    /\ CurrentFocus /= None
    /\ CurrentFocus /= FirstMatch

====
